---- MODULE Spec2Model ----
(***************************************************************************)
(* Model of server/website/website/tasks/periodic_tasks.py: the periodic   *)
(* task run_background_tasks and the three subtasks it drives              *)
(* (aggregate_data, run_workload_characterization,                         *)
(* run_knob_identification).                                               *)
(*                                                                         *)
(* Two specifications share the definitions of the subtasks:               *)
(*   Spec    the orchestrator: the Workload table, the PipelineRun and     *)
(*           PipelineData tables and the position of one invocation of     *)
(*           run_background_tasks, one step per committed save();          *)
(*   SpecFn  the subtasks as functions of matrices drawn from the bounds   *)
(*           MaxRows, MaxKnobs, MaxMetrics, MaxPrunedMetrics.              *)
(*                                                                         *)
(* One invocation runs at a time.  Matrix cells are integers.              *)
(* Indices are 1-based here and 0-based in the source.  Timestamps are     *)
(* modelled by whether they are null: now() is the value Stamp.  A         *)
(* PipelineData row is modelled by its key (pipeline_run, task_type,       *)
(* workload); its payload and creation_time are not part of the state.     *)
(***************************************************************************)
EXTENDS Integers, Sequences, FiniteSets

----------------------------------------------------------------------------
(* Bounds of the model *)

MaxWorkloads == 2
MaxRuns == 2
MaxRows == 2
MaxKnobs == 1
MaxMetrics == 3
MaxPrunedMetrics == 1

(* Program constant: the cap on the number of clusters (line 207) *)
MaxClusterCap == 20

(* Values of matrix cells *)
Values == {0, 1}

NULL == "null"
Stamp == "now"

----------------------------------------------------------------------------
(* Matrix artifacts: [data, rowlabels, columnlabels]; data is a sequence   *)
(* of rows, each a sequence of cells.                                      *)

Min(a, b) == IF a <= b THEN a ELSE b

Range(s) == {s[i] : i \in DOMAIN s}

Iota(n) == [i \in 1..n |-> i]

NRows(md) == Len(md.rowlabels)

NCols(md) == Len(md.columnlabels)

(* matrix.T[j]: column j of the matrix *)
Column(data, j) == [i \in 1..Len(data) |-> data[i][j]]

(* matrix[:, idxs] *)
TakeColumns(data, idxs) ==
    [i \in 1..Len(data) |-> [c \in 1..Len(idxs) |-> data[i][idxs[c]]]]

TakeLabels(labels, idxs) == [c \in 1..Len(idxs) |-> labels[idxs[c]]]

NoData == [data |-> << >>, rowlabels |-> << >>, columnlabels |-> << >>]

RowLabel(i) == 100 + i
KnobLabel(j) == 10 + j
MetricLabel(j) == 20 + j

(* All n x c matrices over Values *)
Matrices(n, c) == [1..n -> [1..c -> Values]]

(* Permutations of 1..n *)
Perms(n) == {p \in [1..n -> 1..n] : \A i, j \in 1..n : p[i] = p[j] => i = j}

----------------------------------------------------------------------------
(* Removal of constant columns (the loop at lines 178-183, repeated at     *)
(* 249-252 and 259-262)                                                    *)

(* A plausible slip: compares with zero instead of with the first row *)
IsNonConstNonZero(col) == \E i \in DOMAIN col : col[i] # 0

(* np.any(col != col[0]) *)
IsNonConst(col) == \E i \in DOMAIN col : col[i] # col[1]

(* Indices of the columns the loop keeps, in the order of zip(matrix.T, columnlabels) *)
NonConstIdxs(md) ==
    SelectSeq(Iota(NCols(md)), LAMBDA j : IsNonConst(Column(md.data, j)))

(* nonconst_matrix, nonconst_columnlabels after np.hstack *)
NonConstMatrix(md) ==
    [data |-> TakeColumns(md.data, NonConstIdxs(md)),
     columnlabels |-> TakeLabels(md.columnlabels, NonConstIdxs(md))]

(* Independent characterisation used by the properties: every column has   *)
(* one value in all rows                                                   *)
AllConstant(md) ==
    \A j \in 1..NCols(md) : \A a, b \in 1..NRows(md) : md.data[a][j] = md.data[b][j]

(* Number of distinct values in column j *)
DistinctValues(md, j) == Cardinality({md.data[i][j] : i \in 1..NRows(md)})

----------------------------------------------------------------------------
(* run_workload_characterization (lines 163-219)                           *)

NeedMoreData == "AssertionError: Need more data to train the model"
ValueError == "ValueError"
NoError == "none"
EmptySweep == "no cluster count to select"

(* A plausible slip: the assertion is missing *)
HasMetricDataUnchecked(idxs) == TRUE

(* assert len(nonconst_matrix) > 0 (line 184) *)
HasMetricData(idxs) == Len(idxs) > 0

(* max_cluster = min(n_cols - 1, 20) (line 207) *)
MaxCluster(n_cols) == Min(n_cols - 1, MaxClusterCap)

(* KMeansClusters.fit: cluster_map_ has one fitted model per k in          *)
(* [min_cluster, max_cluster]                                              *)
ClusterCounts(min_cluster, max_cluster) == min_cluster..max_cluster

(* detk.optimal_num_clusters_: DetK selects one of the fitted cluster      *)
(* counts; nothing can be selected from an empty sweep                     *)
OptimalNumClusters(cluster_map) == cluster_map

(* get_closest_samples of the model fitted for k: one representative       *)
(* sample label per cluster, the clusters partitioning the samples         *)
ClosestSamples(sample_labels, k) ==
    {S \in SUBSET Range(sample_labels) : Cardinality(S) = k}

CharResult(err, nc, mc, k, pm) ==
    [error |-> err, nonconst |-> nc, n_cols |-> Len(nc.columnlabels),
     max_cluster |-> mc, k |-> k, pruned_metrics |-> pm]

(* The possible outcomes of run_workload_characterization(metric_data):    *)
(* binning, the row shuffle and factor analysis produce one loading        *)
(* vector per surviving column and are left out; the selected k and the    *)
(* representatives are any the clustering could produce.                   *)
WorkloadCharacterization(metric_data) ==
    LET idxs == NonConstIdxs(metric_data)
        nc == NonConstMatrix(metric_data)
        mc == MaxCluster(Len(idxs))
        cm == ClusterCounts(1, mc)
    IN  IF ~HasMetricData(idxs)
          THEN {CharResult(NeedMoreData, nc, 0, 0, {})}
        ELSE IF Len(idxs) = 0
          THEN {CharResult(ValueError, nc, 0, 0, {})}
        ELSE IF OptimalNumClusters(cm) = {}
          THEN {CharResult(EmptySweep, nc, mc, 0, {})}
        ELSE UNION {{CharResult(NoError, nc, mc, k, pm) :
                        pm \in ClosestSamples(nc.columnlabels, k)} :
                    k \in OptimalNumClusters(cm)}

----------------------------------------------------------------------------
(* run_knob_identification (lines 222-280)                                 *)

(* A plausible slip: the assertion is missing *)
HasKnobDataUnchecked(idxs) == TRUE

(* assert len(nonconst_knob_matrix) > 0 (line 253) *)
HasKnobData(idxs) == Len(idxs) > 0

RECURSIVE SumSeq(_)
SumSeq(s) == IF s = << >> THEN 0 ELSE Head(s) + SumSeq(Tail(s))

(* StandardScaler().fit_transform: each cell x of a column of n cells with *)
(* sum S and sum of squares Q becomes (x - S/n) / sqrt(Q/n - (S/n)^2),     *)
(* that is (n*x - S) / sqrt(n*Q - S*S); the quotient is kept exactly as    *)
(* the pair << n*x - S, n*Q - S*S >> (a zero variance scales by 1 and      *)
(* gives 0 = << 0, 0 >>).                                                  *)
Standardize(data) ==
    LET n == Len(data)
        c == IF n = 0 THEN 0 ELSE Len(data[1])
        S == [j \in 1..c |-> SumSeq(Column(data, j))]
        Q == [j \in 1..c |-> SumSeq([i \in 1..n |-> data[i][j] * data[i][j]])]
    IN  [i \in 1..n |->
            [j \in 1..c |-> << n * data[i][j] - S[j], n * Q[j] - S[j] * S[j] >>]]

(* matrix[shuffle_indices, :] and [labels[i] for i in shuffle_indices] *)
TakeRows(rows, shuffle_indices) ==
    [i \in 1..Len(shuffle_indices) |-> rows[shuffle_indices[i]]]

(* A plausible slip: the metric rows are left in their original order *)
ShuffleMetricRowsUnshuffled(rows, shuffle_indices) == rows

(* lines 274-275: the metric rows and row labels under shuffle_indices *)
ShuffleMetricRows(rows, shuffle_indices) == TakeRows(rows, shuffle_indices)

(* get_shuffle_indices(n, seed=17): a permutation of the n row indices *)
ShuffleIndices(n) == Perms(n)

KnobResult(err, kd, md, nk, nm, sk, sm, si, shk, shkl, shm, shml) ==
    [error |-> err, knob_data |-> kd, metric_data |-> md,
     nonconst_knob |-> nk, nonconst_metric |-> nm,
     standardized_knob_matrix |-> sk, standardized_metric_matrix |-> sm,
     shuffle_indices |-> si,
     shuffled_knob_matrix |-> shk, shuffled_knob_rowlabels |-> shkl,
     shuffled_metric_matrix |-> shm, shuffled_metric_rowlabels |-> shml]

(* The locals of run_knob_identification(knob_data, metric_data) up to the *)
(* call of the Lasso fit, for the permutation get_shuffle_indices returns  *)
KnobIdentification(knob_data, metric_data, shuffle_indices) ==
    LET kidx == NonConstIdxs(knob_data)
        nk == NonConstMatrix(knob_data)
        midx == NonConstIdxs(metric_data)
        nm == NonConstMatrix(metric_data)
        sk == Standardize(nk.data)
        sm == Standardize(nm.data)
        E == << >>
    IN  IF ~HasKnobData(kidx)
          THEN KnobResult(NeedMoreData, knob_data, metric_data, nk, NoData, E, E, E, E, E, E, E)
        ELSE IF Len(kidx) = 0 \/ Len(midx) = 0
          THEN KnobResult(ValueError, knob_data, metric_data, nk, nm, E, E, E, E, E, E, E)
        ELSE KnobResult(NoError, knob_data, metric_data, nk, nm, sk, sm, shuffle_indices,
                        TakeRows(sk, shuffle_indices),
                        TakeRows(knob_data.rowlabels, shuffle_indices),
                        ShuffleMetricRows(sm, shuffle_indices),
                        ShuffleMetricRows(metric_data.rowlabels, shuffle_indices))

----------------------------------------------------------------------------
(* The filter of the metric matrix by the pruned metrics (lines 90-97)     *)

(* A plausible slip: the test of membership is inverted *)
PrunedMetricIdxsInverted(metric_data, pruned_metrics) ==
    SelectSeq(Iota(NCols(metric_data)),
              LAMBDA i : metric_data.columnlabels[i] \notin pruned_metrics)

(* pruned_metric_idxs (lines 91-92) *)
PrunedMetricIdxs(metric_data, pruned_metrics) ==
    SelectSeq(Iota(NCols(metric_data)),
              LAMBDA i : metric_data.columnlabels[i] \in pruned_metrics)

(* pruned_metric_data (lines 93-97) *)
PrunedMetricData(metric_data, pruned_metrics) ==
    LET idxs == PrunedMetricIdxs(metric_data, pruned_metrics)
    IN  [data |-> TakeColumns(metric_data.data, idxs),
         rowlabels |-> metric_data.rowlabels,
         columnlabels |-> TakeLabels(metric_data.columnlabels, idxs)]

----------------------------------------------------------------------------
(* aggregate_data (lines 118-160)                                          *)

AggregationError == "aggregate_data failed: no results"

(* The results stored for a workload (Result.objects.filter, line 128):    *)
(* n observations of k knobs and m metrics                                 *)
Observations(n, k, m) ==
    {[i \in 1..n |-> [id |-> RowLabel(i), knobs |-> X[i], metrics |-> Y[i]]] :
        X \in Matrices(n, k), Y \in Matrices(n, m)}

(* DataUtil.aggregate_data(wkld_results): one row per result, in the       *)
(* order of the results, the row labels being the result ids               *)
DataUtilAggregate(results) ==
    [X_matrix |-> [i \in 1..Len(results) |-> results[i].knobs],
     y_matrix |-> [i \in 1..Len(results) |-> results[i].metrics],
     rowlabels |-> [i \in 1..Len(results) |-> results[i].id],
     X_columnlabels |-> [j \in 1..Len(results[1].knobs) |-> KnobLabel(j)],
     y_columnlabels |-> [j \in 1..Len(results[1].metrics) |-> MetricLabel(j)]]

(* << knob_data, metric_data >> (lines 147-160) *)
AggregateData(results) ==
    LET aggregated_data == DataUtilAggregate(results)
    IN  << [data |-> aggregated_data.X_matrix,
            rowlabels |-> aggregated_data.rowlabels,
            columnlabels |-> aggregated_data.X_columnlabels],
           [data |-> aggregated_data.y_matrix,
            rowlabels |-> aggregated_data.rowlabels,
            columnlabels |-> aggregated_data.y_columnlabels] >>

----------------------------------------------------------------------------
(* run_background_tasks (lines 25-115)                                     *)

VARIABLES
    workloads,          \* the Workload table, in the order the queryset yields it
    pc,                 \* position of the invocation of run_background_tasks
    unique_workloads,   \* the evaluated queryset of the invocation (line 27)
    idx,                \* position of the for loop in unique_workloads (line 44)
    pipeline_run_obj,   \* index in runs of the invocation's PipelineRun (0: none)
    runs,               \* the PipelineRun table
    iterated,           \* history: iterated[r] is the unique_workloads of run r
    artifacts,          \* the PipelineData table, in the order of the saves
    knob_data,          \* locals of the loop body
    metric_data,
    pruned_metrics,
    outcome,            \* how the last invocation ended
    call                \* a call of a subtask on its own (SpecFn)

vars == << workloads, pc, unique_workloads, idx, pipeline_run_obj, runs, iterated,
           artifacts, knob_data, metric_data, pruned_metrics, outcome, call >>

KNOB_DATA == "KNOB_DATA"
METRIC_DATA == "METRIC_DATA"
PRUNED_METRICS == "PRUNED_METRICS"
RANKED_KNOBS == "RANKED_KNOBS"

(* The order of the saves of one workload *)
TaskTypes == << KNOB_DATA, METRIC_DATA, PRUNED_METRICS, RANKED_KNOBS >>

Outcome(kind, stage, error, run, i) ==
    [kind |-> kind, stage |-> stage, error |-> error, run |-> run, idx |-> i]

NoCall == [fn |-> "none"]

(* The result sets the orchestrator is explored with: no observation, or   *)
(* up to two observations of up to two knobs and two metrics.  The         *)
(* orchestrator reads the data only through the outcome of the subtasks;   *)
(* the subtasks are explored over the bounds in SpecFn.                    *)
StoredResults ==
    UNION {Observations(n, k, m) : n \in 0..2, k \in 1..2, m \in 1..2}

(* A plausible slip: the run is created already stamped as ended *)
NewPipelineRunEnded == [start_time |-> Stamp, end_time |-> Stamp]

(* PipelineRun(start_time=now(), end_time=None) (line 37) *)
NewPipelineRun == [start_time |-> Stamp, end_time |-> NULL]

(* PipelineData(pipeline_run=, task_type=, workload=, ...) *)
PipelineData(run, task_type, workload) ==
    [pipeline_run |-> run, task_type |-> task_type, workload |-> workload]

Save(task_type) ==
    artifacts' = Append(artifacts,
                        PipelineData(pipeline_run_obj, task_type, unique_workloads[idx]))

ClearLocals ==
    /\ knob_data' = NoData
    /\ metric_data' = NoData
    /\ pruned_metrics' = {}

(* A plausible slip: the failure of a workload is swallowed and the loop   *)
(* goes on with the next workload                                          *)
RaiseSwallowed(stage, error) ==
    /\ pc' = "loop"
    /\ idx' = idx + 1
    /\ outcome' = Outcome("failed", stage, error, pipeline_run_obj, idx)
    /\ ClearLocals
    /\ UNCHANGED << workloads, unique_workloads, pipeline_run_obj, runs, iterated,
                    artifacts, call >>

(* An exception leaves run_background_tasks: nothing catches it, the loop  *)
(* and the final save are skipped                                          *)
Raise(stage, error) ==
    /\ pc' = "idle"
    /\ idx' = 0
    /\ unique_workloads' = << >>
    /\ pipeline_run_obj' = 0
    /\ outcome' = Outcome("failed", stage, error, pipeline_run_obj, idx)
    /\ ClearLocals
    /\ UNCHANGED << workloads, runs, iterated, artifacts, call >>

(* Elsewhere in the website a workload is created *)
AddWorkload ==
    /\ Len(workloads) < MaxWorkloads
    /\ workloads' = Append(workloads, Len(workloads) + 1)
    /\ UNCHANGED << pc, unique_workloads, idx, pipeline_run_obj, runs, iterated,
                    artifacts, knob_data, metric_data, pruned_metrics, outcome, call >>

(* A plausible slip: the test for no workloads is missing *)
ReturnNoWorkloadsUnchecked ==
    /\ pc = "idle"
    /\ Len(workloads) = 0
    /\ Len(runs) < MaxRuns
    /\ unique_workloads' = workloads
    /\ runs' = Append(runs, NewPipelineRun)
    /\ iterated' = Append(iterated, workloads)
    /\ pipeline_run_obj' = Len(runs) + 1
    /\ idx' = 1
    /\ pc' = "loop"
    /\ outcome' = Outcome("running", "", NoError, Len(runs) + 1, 0)
    /\ UNCHANGED << workloads, artifacts, knob_data, metric_data, pruned_metrics, call >>

(* lines 27-31: no workload, the task returns *)
ReturnNoWorkloads ==
    /\ pc = "idle"
    /\ Len(workloads) = 0
    /\ outcome' = Outcome("noop", "", NoError, 0, 0)
    /\ UNCHANGED << workloads, pc, unique_workloads, idx, pipeline_run_obj, runs,
                    iterated, artifacts, knob_data, metric_data, pruned_metrics, call >>

(* lines 27-41: the PipelineRun of the invocation is created and saved *)
CreatePipelineRun ==
    /\ pc = "idle"
    /\ Len(workloads) # 0
    /\ Len(runs) < MaxRuns
    /\ unique_workloads' = workloads
    /\ runs' = Append(runs, NewPipelineRun)
    /\ iterated' = Append(iterated, workloads)
    /\ pipeline_run_obj' = Len(runs) + 1
    /\ idx' = 1
    /\ pc' = "loop"
    /\ outcome' = Outcome("running", "", NoError, Len(runs) + 1, 0)
    /\ UNCHANGED << workloads, artifacts, knob_data, metric_data, pruned_metrics, call >>

(* lines 48-61: the workload's data is aggregated and the knob data saved *)
AggregateAndSaveKnobData ==
    /\ pc = "loop"
    /\ idx <= Len(unique_workloads)
    /\ \E wkld_results \in StoredResults :
          IF Len(wkld_results) = 0
            THEN Raise("aggregate_data", AggregationError)
            ELSE /\ knob_data' = AggregateData(wkld_results)[1]
                 /\ metric_data' = AggregateData(wkld_results)[2]
                 /\ Save(KNOB_DATA)
                 /\ pc' = "knob_saved"
                 /\ UNCHANGED << workloads, unique_workloads, idx, pipeline_run_obj, runs,
                                 iterated, pruned_metrics, outcome, call >>

(* A plausible slip: the copied block keeps the task type of the knob data *)
SaveMetricDataAsKnobData ==
    /\ pc = "knob_saved"
    /\ Save(KNOB_DATA)
    /\ pc' = "metric_saved"
    /\ UNCHANGED << workloads, unique_workloads, idx, pipeline_run_obj, runs, iterated,
                    knob_data, metric_data, pruned_metrics, outcome, call >>

(* lines 65-73: the metric data is saved *)
SaveMetricData ==
    /\ pc = "knob_saved"
    /\ Save(METRIC_DATA)
    /\ pc' = "metric_saved"
    /\ UNCHANGED << workloads, unique_workloads, idx, pipeline_run_obj, runs, iterated,
                    knob_data, metric_data, pruned_metrics, outcome, call >>

(* lines 77-85: workload characterization, then the pruned metrics are saved *)
CharacterizeAndSavePrunedMetrics ==
    /\ pc = "metric_saved"
    /\ \E res \in WorkloadCharacterization(metric_data) :
          IF res.error # NoError
            THEN Raise("run_workload_characterization", res.error)
            ELSE /\ pruned_metrics' = res.pruned_metrics
                 /\ Save(PRUNED_METRICS)
                 /\ pc' = "pruned_saved"
                 /\ UNCHANGED << workloads, unique_workloads, idx, pipeline_run_obj, runs,
                                 iterated, knob_data, metric_data, outcome, call >>

(* lines 91-109: the metric data is filtered by the pruned metrics, the    *)
(* knobs are ranked and the ranking is saved                               *)
IdentifyAndSaveRankedKnobs ==
    /\ pc = "pruned_saved"
    /\ \E shuffle_indices \in ShuffleIndices(NRows(knob_data)) :
          LET res == KnobIdentification(knob_data,
                                        PrunedMetricData(metric_data, pruned_metrics),
                                        shuffle_indices)
          IN  IF res.error # NoError
                THEN Raise("run_knob_identification", res.error)
                ELSE /\ Save(RANKED_KNOBS)
                     /\ pc' = "loop"
                     /\ idx' = idx + 1
                     /\ ClearLocals
                     /\ UNCHANGED << workloads, unique_workloads, pipeline_run_obj, runs,
                                     iterated, outcome, call >>

(* A plausible slip: the end time is set inside the loop, after the first   *)
(* workload, instead of after it                                           *)
FinalizeInsideLoop ==
    /\ pc = "loop"
    /\ idx > Min(1, Len(unique_workloads))
    /\ runs' = [runs EXCEPT ![pipeline_run_obj].end_time = Stamp]
    /\ IF idx > Len(unique_workloads)
         THEN /\ pc' = "idle"
              /\ idx' = 0
              /\ unique_workloads' = << >>
              /\ pipeline_run_obj' = 0
              /\ outcome' = Outcome("finalized", "", NoError, pipeline_run_obj, 0)
         ELSE UNCHANGED << pc, idx, unique_workloads, pipeline_run_obj, outcome >>
    /\ UNCHANGED << workloads, iterated, artifacts, knob_data, metric_data,
                    pruned_metrics, call >>

(* lines 114-115: after the loop the end time is set and saved *)
Finalize ==
    /\ pc = "loop"
    /\ idx > Len(unique_workloads)
    /\ runs' = [runs EXCEPT ![pipeline_run_obj].end_time = Stamp]
    /\ pc' = "idle"
    /\ idx' = 0
    /\ unique_workloads' = << >>
    /\ pipeline_run_obj' = 0
    /\ outcome' = Outcome("finalized", "", NoError, pipeline_run_obj, 0)
    /\ UNCHANGED << workloads, iterated, artifacts, knob_data, metric_data,
                    pruned_metrics, call >>

Init ==
    /\ workloads = << >>
    /\ pc = "idle"
    /\ unique_workloads = << >>
    /\ idx = 0
    /\ pipeline_run_obj = 0
    /\ runs = << >>
    /\ iterated = << >>
    /\ artifacts = << >>
    /\ knob_data = NoData
    /\ metric_data = NoData
    /\ pruned_metrics = {}
    /\ outcome = Outcome("none", "", NoError, 0, 0)
    /\ call = NoCall

Next ==
    \/ AddWorkload
    \/ ReturnNoWorkloads
    \/ CreatePipelineRun
    \/ AggregateAndSaveKnobData
    \/ SaveMetricData
    \/ CharacterizeAndSavePrunedMetrics
    \/ IdentifyAndSaveRankedKnobs
    \/ Finalize

Spec == Init /\ [][Next]_vars

----------------------------------------------------------------------------
(* The subtasks on their own: each action is one call on drawn arguments,   *)
(* made from the initial state                                             *)

OrchestratorUnchanged ==
    UNCHANGED << workloads, pc, unique_workloads, idx, pipeline_run_obj, runs, iterated,
                 artifacts, knob_data, metric_data, pruned_metrics, outcome >>

MatrixArtifact(data, rowlabels, columnlabels) ==
    [data |-> data, rowlabels |-> rowlabels, columnlabels |-> columnlabels]

(* run_workload_characterization(metric_data) *)
CallWorkloadCharacterization ==
    /\ call = NoCall
    /\ \E n \in 1..MaxRows, m \in 1..MaxMetrics :
         \E Y \in Matrices(n, m) :
            LET md == MatrixArtifact(Y, [i \in 1..n |-> RowLabel(i)],
                                     [j \in 1..m |-> MetricLabel(j)])
            IN  \E res \in WorkloadCharacterization(md) :
                   call' = [fn |-> "run_workload_characterization",
                            metric_data |-> md, result |-> res]
    /\ OrchestratorUnchanged

(* lines 90-97 on the pruned metrics a characterization returned, then the *)
(* removal of constant metric columns in run_knob_identification (256-263) *)
CallFilterPrunedMetrics ==
    /\ call.fn = "run_workload_characterization"
    /\ call.result.error = NoError
    /\ LET pmd == PrunedMetricData(call.metric_data, call.result.pruned_metrics)
       IN  call' = [fn |-> "pruned_metric_data",
                    metric_data |-> call.metric_data,
                    pruned_metrics |-> call.result.pruned_metrics,
                    pruned_metric_data |-> pmd,
                    nonconst_metric |-> NonConstMatrix(pmd)]
    /\ OrchestratorUnchanged

(* run_knob_identification(knob_data, metric_data); the metric row labels  *)
(* are those of the knob matrix, or other ones                             *)
CallKnobIdentification ==
    /\ call = NoCall
    /\ \E n \in 1..MaxRows, k \in 1..MaxKnobs, m \in 1..MaxPrunedMetrics, off \in {0, 100} :
         \E X \in Matrices(n, k), Y \in Matrices(n, m), si \in ShuffleIndices(n) :
            LET kd == MatrixArtifact(X, [i \in 1..n |-> RowLabel(i)],
                                     [j \in 1..k |-> KnobLabel(j)])
                md == MatrixArtifact(Y, [i \in 1..n |-> RowLabel(i) + off],
                                     [j \in 1..m |-> MetricLabel(j)])
            IN  call' = [fn |-> "run_knob_identification",
                         result |-> KnobIdentification(kd, md, si)]
    /\ OrchestratorUnchanged

NextFn ==
    \/ CallWorkloadCharacterization
    \/ CallFilterPrunedMetrics
    \/ CallKnobIdentification

SpecFn == Init /\ [][NextFn]_vars

----------------------------------------------------------------------------
(* Definitions used by the properties                                      *)

(* The PipelineData rows of run r, in the order they were saved *)
ArtifactsOfRun(r) == SelectSeq(artifacts, LAMBDA a : a.pipeline_run = r)

(* The task types saved for workload w in run r, in the order of the saves *)
TaskTypesSaved(r, w) ==
    LET rows == SelectSeq(artifacts, LAMBDA a : a.pipeline_run = r /\ a.workload = w)
    IN  [i \in 1..Len(rows) |-> rows[i].task_type]

(* The i-th save of run r if no workload fails *)
ExpectedSave(r, i) ==
    PipelineData(r, TaskTypes[((i - 1) % 4) + 1], iterated[r][((i - 1) \div 4) + 1])

(* The number of saves the invocation has made for its current workload *)
SavesAt(p) ==
    CASE p = "loop" -> 0
      [] p = "knob_saved" -> 1
      [] p = "metric_saved" -> 2
      [] p = "pruned_saved" -> 3

IndexOf(labels, l) == CHOOSE j \in DOMAIN labels : labels[j] = l

(* post is pre without its constant columns: the labels of the columns     *)
(* with two distinct values or more, in order, each with its own column    *)
PostFilterOf(pre, post) ==
    /\ post.columnlabels =
         SelectSeq(pre.columnlabels,
                   LAMBDA l : DistinctValues(pre, IndexOf(pre.columnlabels, l)) >= 2)
    /\ Len(post.data) = Len(pre.data)
    /\ \A i \in 1..Len(post.data) : Len(post.data[i]) = Len(post.columnlabels)
    /\ \A c \in 1..Len(post.columnlabels) :
          Column(post.data, c) = Column(pre.data, IndexOf(pre.columnlabels, post.columnlabels[c]))

----------------------------------------------------------------------------
(* Properties of the orchestrator (Spec)                                   *)

(* C1: while an invocation is in progress the end_time of its run is null, *)
(* and a run whose end_time is not null has all four artifacts, in order,  *)
(* for every workload its invocation iterated.                             *)
C1_EndTimeOnlyAfterAllWorkloads ==
    /\ pipeline_run_obj # 0 => runs[pipeline_run_obj].end_time = NULL
    /\ \A r \in DOMAIN runs :
          runs[r].end_time # NULL =>
             \A w \in Range(iterated[r]) : TaskTypesSaved(r, w) = TaskTypes

C1_Witness ==
    \E r \in DOMAIN runs :
       /\ runs[r].end_time # NULL
       /\ Len(iterated[r]) = 2
       /\ Len(ArtifactsOfRun(r)) = 8

(* C2: a step of the task from the idle state with an empty Workload table *)
(* leaves the PipelineRun and PipelineData tables as they are, ends the    *)
(* invocation and reports no error.                                        *)
C2_NoWorkloadsIsNoOp ==
    [][(pc = "idle" /\ workloads = << >> /\ workloads' = << >>) =>
          /\ pc' = "idle"
          /\ runs' = runs
          /\ artifacts' = artifacts
          /\ outcome' = Outcome("noop", "", NoError, 0, 0)]_vars

C2_Witness ==
    /\ outcome.kind = "noop"
    /\ pc = "idle"
    /\ runs = << >>
    /\ artifacts = << >>

(* C3: the saves attributed to a run are, in the order they were made, a   *)
(* prefix of knob data, metric data, pruned metrics, ranked knobs for the  *)
(* first workload, then the same for the next one, and so on; every save   *)
(* belongs to a run, and the saves of the invocation in progress are       *)
(* attributed to its own run.                                              *)
C3_ArtifactOrder ==
    /\ \A i \in DOMAIN artifacts : artifacts[i].pipeline_run \in DOMAIN runs
    /\ \A r \in DOMAIN runs :
          LET saved == ArtifactsOfRun(r)
          IN  /\ Len(saved) <= 4 * Len(iterated[r])
              /\ \A i \in 1..Len(saved) : saved[i] = ExpectedSave(r, i)
    /\ pipeline_run_obj # 0 =>
          Len(ArtifactsOfRun(pipeline_run_obj)) = 4 * (idx - 1) + SavesAt(pc)

C3_Witness ==
    /\ Len(runs) = 2
    /\ Len(ArtifactsOfRun(1)) >= 2
    /\ Len(ArtifactsOfRun(2)) = 6

(* C4: after a failure in the workload at position p of a run, the task    *)
(* has ended, the run's end_time is null, no artifact of the run belongs   *)
(* to a workload after p and every workload before p has its four          *)
(* artifacts.                                                              *)
C4_FailureAbortsInvocation ==
    outcome.kind = "failed" =>
       LET r == outcome.run
           p == outcome.idx
       IN  /\ pc = "idle"
           /\ runs[r].end_time = NULL
           /\ \A q \in 1..Len(iterated[r]) :
                 /\ q > p => TaskTypesSaved(r, iterated[r][q]) = << >>
                 /\ q < p => TaskTypesSaved(r, iterated[r][q]) = TaskTypes

C4_Witness ==
    /\ outcome.kind = "failed"
    /\ outcome.idx = 1
    /\ Len(iterated[outcome.run]) = 2
    /\ Len(workloads) = 2

C5_Inv ==
    (outcome.kind = "failed" /\ outcome.stage = "run_workload_characterization") =>
        TaskTypesSaved(outcome.run, iterated[outcome.run][outcome.idx])
           = << KNOB_DATA, METRIC_DATA >>

C5_Step ==
    (pc = "metric_saved" /\ pc' # "metric_saved" /\ AllConstant(metric_data)) =>
        /\ outcome' = Outcome("failed", "run_workload_characterization", NeedMoreData,
                              pipeline_run_obj, idx)
        /\ artifacts' = artifacts
        /\ pc' = "idle"

(* C5: when every column of the metric matrix is constant, the step after  *)
(* the save of the metric data fails with the assertion "Need more data"   *)
(* and saves nothing; a workload that failed in characterization has its   *)
(* knob data and metric data artifacts and no other.                       *)
C5_AllConstantMetricsFailFast == []C5_Inv /\ [][C5_Step]_vars

C5_Witness ==
    /\ outcome.kind = "failed"
    /\ outcome.stage = "run_workload_characterization"
    /\ outcome.error = NeedMoreData

C6_Inv ==
    (outcome.kind = "failed" /\ outcome.stage = "run_knob_identification") =>
        /\ outcome.error = NeedMoreData
        /\ TaskTypesSaved(outcome.run, iterated[outcome.run][outcome.idx])
              = << KNOB_DATA, METRIC_DATA, PRUNED_METRICS >>

C6_Step ==
    (pc = "pruned_saved" /\ pc' # "pruned_saved") =>
        IF AllConstant(knob_data)
          THEN /\ outcome' = Outcome("failed", "run_knob_identification", NeedMoreData,
                                     pipeline_run_obj, idx)
               /\ artifacts' = artifacts
          ELSE /\ outcome' = outcome
               /\ artifacts' = Append(artifacts,
                                      PipelineData(pipeline_run_obj, RANKED_KNOBS,
                                                   unique_workloads[idx]))

(* C6: the step after the save of the pruned metrics fails, with the       *)
(* assertion "Need more data", exactly when every knob column is constant, *)
(* and then saves nothing; otherwise it saves the ranked knobs.  A         *)
(* workload that failed in knob identification has its knob data, metric   *)
(* data and pruned metrics artifacts and no ranked knobs.                  *)
C6_KnobIdentificationFailsIffAllConstant == []C6_Inv /\ [][C6_Step]_vars

C6_Witness ==
    /\ outcome.kind = "failed"
    /\ outcome.stage = "run_knob_identification"
    /\ outcome.error = NeedMoreData

----------------------------------------------------------------------------
(* Properties of the subtasks (SpecFn)                                     *)

(* C7: in run_workload_characterization and in run_knob_identification     *)
(* (knob and metric matrices) the matrix after the removal of constant     *)
(* columns holds exactly the columns with two distinct values or more, in  *)
(* their order, each with its label.                                       *)
C7_ConstantColumnElimination ==
    /\ call.fn = "run_workload_characterization" =>
          PostFilterOf(call.metric_data, call.result.nonconst)
    /\ call.fn = "run_knob_identification" =>
          /\ PostFilterOf(call.result.knob_data, call.result.nonconst_knob)
          /\ call.result.error # NeedMoreData =>
                PostFilterOf(call.result.metric_data, call.result.nonconst_metric)

C7_Witness ==
    /\ call.fn = "run_workload_characterization"
    /\ NRows(call.metric_data) = 2
    /\ Len(call.result.nonconst.columnlabels) = 2
    /\ NCols(call.metric_data) = 3
    /\ call.result.nonconst.columnlabels[1] # call.metric_data.columnlabels[1]

(* C8: for every metric matrix with a non-constant column, n being the     *)
(* number of non-constant columns, run_workload_characterization returns   *)
(* a set of k column names of the matrix, k in [1, min(n - 1, 20)].        *)
C8_PrunedSetCardinality ==
    (call.fn = "run_workload_characterization" /\ ~AllConstant(call.metric_data)) =>
        LET n == Cardinality({j \in 1..NCols(call.metric_data) :
                                 DistinctValues(call.metric_data, j) >= 2})
        IN  /\ call.result.error = NoError
            /\ call.result.k \in 1..Min(n - 1, MaxClusterCap)
            /\ Cardinality(call.result.pruned_metrics) = call.result.k
            /\ call.result.pruned_metrics \subseteq Range(call.metric_data.columnlabels)

(* The statement of C8 restricted to matrices with two non-constant        *)
(* columns or more                                                         *)
PrunedSetCardinalityFromTwoColumns ==
    (call.fn = "run_workload_characterization"
       /\ Len(call.result.nonconst.columnlabels) >= 2) =>
        /\ call.result.error = NoError
        /\ call.result.k \in 1..Min(call.result.n_cols - 1, MaxClusterCap)
        /\ Cardinality(call.result.pruned_metrics) = call.result.k
        /\ call.result.pruned_metrics \subseteq Range(call.metric_data.columnlabels)

(* C9: row i of the shuffled knob matrix, row i of the shuffled metric     *)
(* matrix and the two shuffled row labels at i all come from one original  *)
(* row; the shuffled labels are the original ones permuted; equal input    *)
(* row labels give equal shuffled row labels.                              *)
C9_SameRowPermutation ==
    (call.fn = "run_knob_identification" /\ call.result.error = NoError) =>
        LET res == call.result
            n == NRows(res.knob_data)
        IN  /\ Len(res.shuffled_knob_matrix) = n
            /\ Len(res.shuffled_metric_matrix) = n
            /\ Len(res.shuffled_knob_rowlabels) = n
            /\ Len(res.shuffled_metric_rowlabels) = n
            /\ Range(res.shuffled_knob_rowlabels) = Range(res.knob_data.rowlabels)
            /\ \A i \in 1..n : \E o \in 1..n :
                  /\ res.shuffled_knob_rowlabels[i] = res.knob_data.rowlabels[o]
                  /\ res.shuffled_knob_matrix[i] = res.standardized_knob_matrix[o]
                  /\ res.shuffled_metric_matrix[i] = res.standardized_metric_matrix[o]
                  /\ res.shuffled_metric_rowlabels[i] = res.metric_data.rowlabels[o]
            /\ res.knob_data.rowlabels = res.metric_data.rowlabels =>
                  res.shuffled_knob_rowlabels = res.shuffled_metric_rowlabels

C9_Witness ==
    /\ call.fn = "run_knob_identification"
    /\ call.result.error = NoError
    /\ call.result.knob_data.rowlabels = call.result.metric_data.rowlabels
    /\ call.result.shuffled_knob_rowlabels # call.result.knob_data.rowlabels

(* C10: the pruned metric matrix holds exactly the columns of the metric   *)
(* matrix named in the pruned set, in order, with the metric matrix's row  *)
(* labels; it is not empty, each of its columns has two distinct values or *)
(* more, and the removal of constant metric columns in                     *)
(* run_knob_identification returns it unchanged.                           *)
C10_PrunedMetricsAreNonConstant ==
    call.fn = "pruned_metric_data" =>
        LET md == call.metric_data
            pmd == call.pruned_metric_data
        IN  /\ pmd.columnlabels =
                  SelectSeq(md.columnlabels, LAMBDA l : l \in call.pruned_metrics)
            /\ pmd.rowlabels = md.rowlabels
            /\ Len(pmd.data) = Len(md.data)
            /\ \A c \in 1..Len(pmd.columnlabels) :
                  /\ Column(pmd.data, c)
                        = Column(md.data, IndexOf(md.columnlabels, pmd.columnlabels[c]))
                  /\ DistinctValues(pmd, c) >= 2
            /\ Len(pmd.columnlabels) > 0
            /\ call.nonconst_metric.data = pmd.data
            /\ call.nonconst_metric.columnlabels = pmd.columnlabels

C10_Witness ==
    /\ call.fn = "pruned_metric_data"
    /\ DistinctValues(call.metric_data, 1) = 1
    /\ Len(call.pruned_metric_data.columnlabels) = 1
    /\ NCols(call.metric_data) = 3

====
